---------------------------- MODULE Spec2Model ----------------------------
(***************************************************************************)
(* Model of src/explanations/simulator.py: the three neuron-simulation     *)
(* strategies (all-at-once logprob parsing, token-by-token fan-out, and    *)
(* the logprob-free text/JSON modality) and the pure functions they use.   *)
(*                                                                         *)
(* Conventions.                                                            *)
(*  - A Python str is a sequence of one-character strings.                 *)
(*  - A Python float that the code computes by dividing is an exact        *)
(*    rational [num, den]; np.exp(logprob) is a positive fixed-point       *)
(*    integer (logprobs are integers in units of ln 2).                    *)
(*  - A value the text/JSON parsers return is [nan, v]: float("nan")       *)
(*    passes both range tests of the code and is returned as it is.        *)
(***************************************************************************)
EXTENDS Integers, Sequences, FiniteSets, TLC

VARIABLES
    \* compute_predicted_activation_stats_for_token (one call)
    top_logprobs, stats_pc, stats_result,
    \* ExplanationTokenByTokenSimulator.simulate (one invocation)
    tbt_tokens, tbt_explanation, tbt_pc, tasks, requests, completed, tbt_result,
    \* parse_simulation_response (one call)
    lp_format, lp_response, lp_tokens, lp_pc, lp_result,
    \* LogprobFreeExplanationTokenSimulator.simulate (one invocation)
    json_mode, free_tokens, free_explanation, free_pc, free_request,
    free_response, free_result, free_previous,
    \* _parse_no_logprobs_completion (one call)
    completion, text_tokens, text_pc, text_result,
    \* the construction of a simulator and the building of one prompt
    sim_kind, sim_json_mode, sim_example_set, sim_examples, sim_explanation,
    sim_tokens, sim_pc, sim_api_client, sim_messages, sim_records

statsVars == <<top_logprobs, stats_pc, stats_result>>
tbtVars == <<tbt_tokens, tbt_explanation, tbt_pc, tasks, requests, completed, tbt_result>>
lpVars == <<lp_format, lp_response, lp_tokens, lp_pc, lp_result>>
freeVars == <<json_mode, free_tokens, free_explanation, free_pc, free_request,
              free_response, free_result, free_previous>>
textVars == <<completion, text_tokens, text_pc, text_result>>
simVars == <<sim_kind, sim_json_mode, sim_example_set, sim_examples,
             sim_explanation, sim_tokens, sim_pc, sim_api_client, sim_messages,
             sim_records>>
vars == <<statsVars, tbtVars, lpVars, freeVars, textVars, simVars>>

---------------------------------------------------------------------------
(* Bounds of the model. *)

\* longest subject token sequence
MaxTokens == 2
\* most candidates in one top_logprobs table
MaxCands == 3
\* logprobs range over -LogprobDepth..0 (units of ln 2)
LogprobDepth == 2

---------------------------------------------------------------------------
(* Python str operations, on sequences of characters. *)

RECURSIVE Flatten(_)
Flatten(ss) == IF ss = <<>> THEN <<>> ELSE Head(ss) \o Flatten(Tail(ss))

\* s[i:] with a 0-based index i >= 0
SliceFrom(s, i) == IF i >= Len(s) THEN <<>> ELSE SubSeq(s, i + 1, Len(s))

\* s.startswith(p)
StartsWith(s, p) == Len(p) <= Len(s) /\ SubSeq(s, 1, Len(p)) = p

\* pat occurs in s at 0-based index k
OccursAt(s, pat, k) ==
    /\ k >= 0
    /\ k + Len(pat) <= Len(s)
    /\ SubSeq(s, k + 1, k + Len(pat)) = pat

\* s.rfind(pat): the highest index of an occurrence, -1 if there is none
RFind(s, pat) ==
    LET hits == {k \in 0..Len(s) : OccursAt(s, pat, k)}
    IN  IF hits = {} THEN -1 ELSE CHOOSE k \in hits : \A j \in hits : j <= k

\* s.find(pat): the lowest index of an occurrence, -1 if there is none
Find(s, pat) ==
    LET hits == {k \in 0..Len(s) : OccursAt(s, pat, k)}
    IN  IF hits = {} THEN -1 ELSE CHOOSE k \in hits : \A j \in hits : k <= j

\* list.index(x) as a 0-based index; -1 stands for ValueError
IndexOf(seq, x) ==
    LET hits == {k \in 1..Len(seq) : seq[k] = x}
    IN  IF hits = {} THEN -1 ELSE (CHOOSE k \in hits : \A j \in hits : k <= j) - 1

RECURSIVE LStrip(_, _)
LStrip(s, chars) ==
    IF s # <<>> /\ Head(s) \in chars THEN LStrip(Tail(s), chars) ELSE s

RECURSIVE RStrip(_, _)
RStrip(s, chars) ==
    IF s # <<>> /\ s[Len(s)] \in chars
    THEN RStrip(SubSeq(s, 1, Len(s) - 1), chars) ELSE s

\* s.strip(chars): drops every leading and trailing character that is in chars
Strip(s, chars) == RStrip(LStrip(s, chars), chars)

\* the characters str.strip() and float() treat as whitespace
Whitespace == {" ", "\t", "\n"}

\* s.split(sep) for a non-empty separator
RECURSIVE Split(_, _)
Split(s, sep) ==
    LET k == Find(s, sep)
    IN  IF k = -1 THEN <<s>>
        ELSE <<SubSeq(s, 1, k)>> \o Split(SliceFrom(s, k + Len(sep)), sep)

Digits == <<"0", "1", "2", "3", "4", "5", "6", "7", "8", "9">>
DigitVal(c) == (CHOOSE d \in 1..10 : Digits[d] = c) - 1

\* str(i) for a natural number i
RECURSIVE StrOfNat(_)
StrOfNat(i) ==
    IF i < 10 THEN <<Digits[i + 1]>> ELSE StrOfNat(i \div 10) \o <<Digits[(i % 10) + 1]>>

\* the value of a non-empty string of digits
RECURSIVE NatOfDigits(_)
NatOfDigits(s) ==
    IF Len(s) = 1 THEN DigitVal(s[1])
    ELSE 10 * NatOfDigits(SubSeq(s, 1, Len(s) - 1)) + DigitVal(s[Len(s)])

AllDigits(s) == s # <<>> /\ \A k \in 1..Len(s) : \E d \in 1..10 : Digits[d] = s[k]

---------------------------------------------------------------------------
(* Exact rationals for the floats the code divides. *)

Rat(n, d) == [num |-> n, den |-> d]
RatAdd(a, b) == Rat(a.num * b.den + b.num * a.den, a.den * b.den)
RatScale(k, a) == Rat(k * a.num, a.den)
RatEq(a, b) == a.num * b.den = b.num * a.den
RatLE(a, b) == a.num * b.den <= b.num * a.den

RECURSIVE RatSum(_)
RatSum(rs) == IF rs = <<>> THEN Rat(0, 1) ELSE RatAdd(Head(rs), RatSum(Tail(rs)))

RECURSIVE IntSum(_)
IntSum(xs) == IF xs = <<>> THEN 0 ELSE Head(xs) + IntSum(Tail(xs))

---------------------------------------------------------------------------
(* Activation-distribution math. *)

MAX_NORMALIZED_ACTIVATION == 10

VALID_ACTIVATION_TOKENS_ORDERED ==
    [i \in 1..(MAX_NORMALIZED_ACTIVATION + 1) |-> StrOfNat(i - 1)]

VALID_ACTIVATION_TOKENS ==
    {VALID_ACTIVATION_TOKENS_ORDERED[i] : i \in 1..(MAX_NORMALIZED_ACTIVATION + 1)}

\* int(token) for a token of VALID_ACTIVATION_TOKENS
IntOfToken(token) == NatOfDigits(token)

\* np.exp(logprob), in units of 2^-LogprobDepth: positive for every logprob
NpExp(logprob) == 2 ^ (logprob + LogprobDepth)

\* OrderedDict item assignment d[key] = val: a new key goes last, an old key
\* keeps its place
DictSet(d, key, val) ==
    IF \E k \in 1..Len(d) : d[k].key = key
    THEN [k \in 1..Len(d) |-> IF d[k].key = key THEN [key |-> key, val |-> val] ELSE d[k]]
    ELSE Append(d, [key |-> key, val |-> val])

DictKeys(d) == [k \in 1..Len(d) |-> d[k].key]
DictValues(d) == [k \in 1..Len(d) |-> d[k].val]

\* the mutant: every candidate made of digits is kept, in range or not
RECURSIVE parse_top_logprobs_any_number(_)
parse_top_logprobs_any_number(tl) ==
    IF tl = <<>> THEN <<>>
    ELSE LET rest == parse_top_logprobs_any_number(SubSeq(tl, 1, Len(tl) - 1))
             last == tl[Len(tl)]
         IN  IF AllDigits(last.token)
             THEN DictSet(rest, NatOfDigits(last.token), NpExp(last.logprob))
             ELSE rest

\* the mutant: a number above the range is clipped to the maximum
RECURSIVE parse_top_logprobs_clipped(_)
parse_top_logprobs_clipped(tl) ==
    IF tl = <<>> THEN <<>>
    ELSE LET rest == parse_top_logprobs_clipped(SubSeq(tl, 1, Len(tl) - 1))
             last == tl[Len(tl)]
             n == NatOfDigits(last.token)
         IN  IF AllDigits(last.token)
             THEN DictSet(rest,
                          IF n > MAX_NORMALIZED_ACTIVATION
                          THEN MAX_NORMALIZED_ACTIVATION ELSE n,
                          NpExp(last.logprob))
             ELSE rest

\* tl: the dict's items in order, each [token, logprob]
RECURSIVE parse_top_logprobs(_)
parse_top_logprobs(tl) ==
    IF tl = <<>> THEN <<>>
    ELSE LET rest == parse_top_logprobs(SubSeq(tl, 1, Len(tl) - 1))
             last == tl[Len(tl)]
         IN  IF last.token \in VALID_ACTIVATION_TOKENS
             THEN DictSet(rest, IntOfToken(last.token), NpExp(last.logprob))
             ELSE rest

\* np.dot(keys, values)
compute_expected_value(norm) ==
    RatSum([k \in 1..Len(norm) |-> RatScale(norm[k].key, norm[k].val)])

\* the mutant: the expected value is divided by the total once more, kept
\* candidates or not
compute_predicted_activation_stats_dividing(tl) ==
    LET kept == parse_top_logprobs(tl)
        total == IntSum(DictValues(kept))
    IN  [norm |-> [k \in 1..Len(kept) |->
                      [key |-> kept[k].key, val |-> Rat(kept[k].val, total)]],
         expected_value |->
             Rat(IntSum([k \in 1..Len(kept) |-> kept[k].key * kept[k].val]), total)]

compute_predicted_activation_stats_for_token(tl) ==
    LET probabilities_by_distribution_value == parse_top_logprobs(tl)
        total_p_of_distribution_values ==
            IntSum(DictValues(probabilities_by_distribution_value))
        norm_probabilities_by_distribution_value ==
            [k \in 1..Len(probabilities_by_distribution_value) |->
                [key |-> probabilities_by_distribution_value[k].key,
                 val |-> Rat(probabilities_by_distribution_value[k].val,
                             total_p_of_distribution_values)]]
    IN  [norm |-> norm_probabilities_by_distribution_value,
         expected_value |-> compute_expected_value(norm_probabilities_by_distribution_value)]

---------------------------------------------------------------------------
(* Inputs: top_logprobs tables. *)

\* candidate tokens of a table: in range, out of range, negative,
\* non-numeric, and in range after a leading space
CandTokens ==
    {StrOfNat(0), StrOfNat(7), StrOfNat(10), StrOfNat(11), <<"-", "1">>, <<"n", "o">>,
     <<" ", "7">>}
\* log-probabilities of a candidate: certain, likely, and the least likely
Logprobs == {0 - LogprobDepth, 0 - 1, 0}

\* a dict has each key once
RECURSIVE TablesOfLen(_)
TablesOfLen(n) ==
    IF n = 0 THEN {<<>>}
    ELSE UNION {{Append(t, [token |-> c, logprob |-> l]) :
                    c \in CandTokens \ {t[i].token : i \in 1..Len(t)},
                    l \in Logprobs} :
                t \in TablesOfLen(n - 1)}

NoStats == [norm |-> <<>>, expected_value |-> Rat(0, 1)]

---------------------------------------------------------------------------
(* compute_predicted_activation_stats_for_token: one call on one table. *)

ComputeStats ==
    /\ stats_pc = "call"
    /\ stats_result' = compute_predicted_activation_stats_for_token(top_logprobs)
    /\ stats_pc' = "returned"
    /\ UNCHANGED <<top_logprobs, tbtVars, lpVars, freeVars, textVars, simVars>>

---------------------------------------------------------------------------
(* Inputs: subject tokens, explanations, predictor responses. *)

\* token sequences of at most MaxTokens tokens
RECURSIVE SeqsOfLen(_, _)
SeqsOfLen(S, n) ==
    IF n = 0 THEN {<<>>} ELSE {Append(q, x) : q \in SeqsOfLen(S, n - 1), x \in S}

SeqsUpTo(S, n) == UNION {SeqsOfLen(S, k) : k \in 0..n}

PlainTokenSeqs == SeqsUpTo({<<"A">>, <<" ", "B">>}, MaxTokens)

\* explanation strings: the empty one fails the prompt builders' assertion
Explanations == {<<>>, <<"e">>}

\* top_logprobs tables of a response token; the expected values of the first
\* three differ (0, 10, 7/2), "other" is of a token that is no placeholder
ResponseTable(name) ==
    CASE name = "zero" -> <<[token |-> StrOfNat(0), logprob |-> 0]>>
      [] name = "ten" -> <<[token |-> StrOfNat(10), logprob |-> 0],
                           [token |-> <<"n", "o">>, logprob |-> -1]>>
      [] name = "mixed" -> <<[token |-> StrOfNat(7), logprob |-> -1],
                             [token |-> StrOfNat(0), logprob |-> -1]>>
      [] name = "other" -> <<[token |-> <<"n", "o">>, logprob |-> 0]>>

\* what a one-token completion may come back with
ResponseTables == {ResponseTable(name) : name \in {"zero", "ten", "mixed"}}

\* how a call of one of the parsers ends: with a value or with an exception
Returned(value) == [outcome |-> "returned", error |-> "", value |-> value]
Raised(error) == [outcome |-> "raised", error |-> error, value |-> <<>>]

NoResult ==
    [tokens |-> <<>>, expected_activations |-> <<>>,
     distribution_values |-> <<>>, distribution_probabilities |-> <<>>]

---------------------------------------------------------------------------
(* ExplanationTokenByTokenSimulator.simulate: asyncio.gather over one      *)
(* coroutine per token index.  tasks[k] is the coroutine for token index   *)
(* k - 1.                                                                  *)

\* the mutant: range(len(tokens) - 1)
TokenIndicesOffByOne(tokens) == 1..(Len(tokens) - 1)

\* range(len(tokens)), as 1-based task numbers
TokenIndices(tokens) == 1..Len(tokens)

\* make_single_token_simulation_prompt: what the final user message carries
make_single_token_simulation_prompt(tokens, explanation, token_index_to_score) ==
    [explanation |-> Strip(explanation, Whitespace),
     text |-> Flatten(SubSeq(tokens, 1, token_index_to_score + 1)),
     last_token |-> tokens[token_index_to_score + 1]]

\* the request _get_activation_stats_for_single_token sends
SingleTokenRequest(tokens, explanation, token_index_to_score) ==
    [token_index |-> token_index_to_score,
     prompt |-> make_single_token_simulation_prompt(tokens, explanation, token_index_to_score),
     max_tokens |-> 1, echo |-> FALSE, logprobs |-> 15]

\* the mutant: the responses in the order the requests completed
ResponsesByCompletion(ts, order) == [k \in 1..Len(order) |-> ts[order[k]].response]

\* gather's result list: child k's result at position k
ResponsesByToken(ts, order) == [k \in DOMAIN ts |-> ts[k].response]

\* the mutant: gather(..., return_exceptions=True) returns once every child ended
GatherAllEnded(ts) == \A k \in DOMAIN ts : ts[k].state \in {"done", "raised"}

\* gather sets its result when every child has a result
GatherAllDone(ts) == \A k \in DOMAIN ts : ts[k].state = "done"

\* gather (return_exceptions=False) raises the first exception of a child
GatherRaises(ts) == \E k \in DOMAIN ts : ts[k].state = "raised"

\* lines 335-358: one entry per response, in the order of responses_by_token
AssembleSimulation(tokens, responses_by_token) ==
    LET stats == [k \in 1..Len(responses_by_token) |->
                    compute_predicted_activation_stats_for_token(responses_by_token[k])]
    IN  [tokens |-> tokens,
         expected_activations |-> [k \in 1..Len(stats) |-> stats[k].expected_value],
         distribution_values |-> [k \in 1..Len(stats) |-> DictKeys(stats[k].norm)],
         distribution_probabilities |-> [k \in 1..Len(stats) |-> DictValues(stats[k].norm)]]

\* simulate is called: gather schedules one coroutine per token index; with no
\* coroutine it returns [] at once and simulate returns without suspending
TbtSimulate ==
    /\ tbt_pc = "idle"
    /\ tasks' = [k \in TokenIndices(tbt_tokens) |-> [state |-> "scheduled", response |-> <<>>]]
    /\ IF TokenIndices(tbt_tokens) = {}
       THEN /\ tbt_pc' = "returned"
            /\ tbt_result' = AssembleSimulation(tbt_tokens, <<>>)
       ELSE /\ tbt_pc' = "gathering"
            /\ UNCHANGED tbt_result
    /\ UNCHANGED <<tbt_tokens, tbt_explanation, requests, completed>>
    /\ UNCHANGED <<statsVars, lpVars, freeVars, textVars, simVars>>

\* _get_activation_stats_for_single_token runs to its await: the prompt is
\* built (assert explanation != "") and the request is sent
TaskStart(k) ==
    /\ tbt_pc \in {"gathering", "raised"}
    /\ k \in DOMAIN tasks
    /\ tasks[k].state = "scheduled"
    /\ IF tbt_explanation = <<>>
       THEN /\ tasks' = [tasks EXCEPT ![k].state = "raised"]
            /\ UNCHANGED requests
       ELSE /\ tasks' = [tasks EXCEPT ![k].state = "awaiting"]
            /\ requests' = Append(requests,
                                  SingleTokenRequest(tbt_tokens, tbt_explanation, k - 1))
    /\ UNCHANGED <<tbt_tokens, tbt_explanation, tbt_pc, completed, tbt_result>>
    /\ UNCHANGED <<statsVars, lpVars, freeVars, textVars, simVars>>

\* api_client.make_request returns the response for request k
TaskComplete(k, table) ==
    /\ tbt_pc \in {"gathering", "raised"}
    /\ k \in DOMAIN tasks
    /\ tasks[k].state = "awaiting"
    /\ tasks' = [tasks EXCEPT ![k] = [state |-> "done", response |-> table]]
    /\ completed' = Append(completed, k)
    /\ UNCHANGED <<tbt_tokens, tbt_explanation, tbt_pc, requests, tbt_result>>
    /\ UNCHANGED <<statsVars, lpVars, freeVars, textVars, simVars>>

\* api_client.make_request raises
TaskFail(k) ==
    /\ tbt_pc \in {"gathering", "raised"}
    /\ k \in DOMAIN tasks
    /\ tasks[k].state = "awaiting"
    /\ tasks' = [tasks EXCEPT ![k].state = "raised"]
    /\ UNCHANGED <<tbt_tokens, tbt_explanation, tbt_pc, requests, completed, tbt_result>>
    /\ UNCHANGED <<statsVars, lpVars, freeVars, textVars, simVars>>

\* the await of gather raises in simulate
TbtRaise ==
    /\ tbt_pc = "gathering"
    /\ GatherRaises(tasks)
    /\ tbt_pc' = "raised"
    /\ UNCHANGED <<tbt_tokens, tbt_explanation, tasks, requests, completed, tbt_result>>
    /\ UNCHANGED <<statsVars, lpVars, freeVars, textVars, simVars>>

\* the await of gather returns responses_by_token and simulate assembles
TbtReturn ==
    /\ tbt_pc = "gathering"
    /\ GatherAllDone(tasks)
    /\ tbt_result' = AssembleSimulation(tbt_tokens, ResponsesByToken(tasks, completed))
    /\ tbt_pc' = "returned"
    /\ UNCHANGED <<tbt_tokens, tbt_explanation, tasks, requests, completed>>
    /\ UNCHANGED <<statsVars, lpVars, freeVars, textVars, simVars>>

---------------------------------------------------------------------------
(* parse_simulation_response: the all-at-once logprob parser. *)

PromptFormats == {"NONE", "INSTRUCTION_FOLLOWING", "HARMONY_V4"}

Str_unknown == <<"u", "n", "k", "n", "o", "w", "n">>
\* "\n<start>"
START_PREFIX == <<"\n", "<", "s", "t", "a", "r", "t", ">">>
\* "\n<start>\n"
START_MARKER == START_PREFIX \o <<"\n">>

\* f"\n{subject_token}\tunknown"
UnknownLine(subject_token) == <<"\n">> \o subject_token \o <<"\t">> \o Str_unknown
\* f"\n{subject_token}\t"
UnknownLineHead(subject_token) == <<"\n">> \o subject_token \o <<"\t">>

\* lines 133-142: the text the prompt format selects; a format outside the
\* enum raises ValueError
ResponseText(response, prompt_format) ==
    IF prompt_format = "HARMONY_V4" THEN response.message_content
    ELSE response.choice_text

\* the mutant: text.find, the first marker of the text
ScoringStartFirst(text) == Find(text, START_MARKER) + Len(START_PREFIX)

\* line 149: text.rfind("\n<start>\n") + len("\n<start>")
ScoringStart(text) == RFind(text, START_MARKER) + Len(START_PREFIX)

\* lines 156-178, from subject token i on, with the cursor and the lists so far
RECURSIVE ParseSubjectTokens(_, _, _, _, _, _)
ParseSubjectTokens(text, logprobs, tokens, i, current_text_idx, acc) ==
    IF i > Len(tokens)
    THEN Returned(acc)
    ELSE
      LET subject_token == tokens[i]
          u_idx == current_text_idx + Len(UnknownLineHead(subject_token))
      IN  IF ~StartsWith(SliceFrom(text, current_text_idx), UnknownLine(subject_token))
          THEN Raised("AssertionError")
          ELSE IF IndexOf(logprobs.text_offset, u_idx) = -1
          THEN Raised("AssertionError: tab token was merged with the unknown token")
          ELSE
            LET response_token_idx == IndexOf(logprobs.text_offset, u_idx)
                stats == compute_predicted_activation_stats_for_token(
                             logprobs.top_logprobs[response_token_idx + 1])
            IN  ParseSubjectTokens(text, logprobs, tokens, i + 1,
                    current_text_idx + Len(UnknownLine(subject_token)),
                    [acc EXCEPT
                       !.expected_activations = Append(@, stats.expected_value),
                       !.distribution_values = Append(@, DictKeys(stats.norm)),
                       !.distribution_probabilities = Append(@, DictValues(stats.norm))])

parse_simulation_response(response, prompt_format, tokens) ==
    IF prompt_format \notin PromptFormats
    THEN Raised("ValueError")
    ELSE
      LET text == ResponseText(response, prompt_format)
          current_text_idx == ScoringStart(text)
      IN  IF current_text_idx = -1
          THEN Raised("Exception: No scoring start found")
          ELSE ParseSubjectTokens(text, response.logprobs, tokens, 1, current_text_idx,
                                  [NoResult EXCEPT !.tokens = tokens])

(* Inputs: responses, each a sequence of response tokens with one          *)
(* top_logprobs table per token; text and text_offset follow from them.    *)

RespTok(s, table) == [s |-> s, table |-> table]
Plain(s) == RespTok(s, ResponseTable("other"))

\* response tokens of the line for subject token tok
LineTokens(tok, kind, table) ==
    CASE kind = "ok" -> <<Plain(<<"\n">>), Plain(tok), Plain(<<"\t">>), RespTok(Str_unknown, table)>>
      [] kind = "merged" -> <<Plain(<<"\n">>), Plain(tok), RespTok(<<"\t">> \o Str_unknown, table)>>
      [] kind = "known" -> <<Plain(<<"\n">>), Plain(tok), Plain(<<"\t">>), RespTok(<<"k", "n", "o", "w", "n">>, table)>>
      [] kind = "other_token" -> <<Plain(<<"\n">>), Plain(<<"Z">>), Plain(<<"\t">>), RespTok(Str_unknown, table)>>
      [] kind = "absent" -> <<>>

\* per line a kind and a table; at most one line is not "ok"
LineChoices(n) ==
    {c \in [1..n -> {"ok", "merged", "known", "other_token", "absent"}
                      \X {ResponseTable("zero"), ResponseTable("ten")}] :
        Cardinality({k \in 1..n : c[k][1] # "ok"}) <= 1}

\* text_offset: where each response token starts in the text
RECURSIVE Offsets(_, _)
Offsets(rtoks, at) ==
    IF rtoks = <<>> THEN <<>>
    ELSE <<at>> \o Offsets(Tail(rtoks), at + Len(Head(rtoks).s))

BuildResponse(rtoks, prompt_format) ==
    LET text == Flatten([k \in 1..Len(rtoks) |-> rtoks[k].s])
    IN  [choice_text |-> IF prompt_format = "HARMONY_V4" THEN <<>> ELSE text,
         message_content |-> IF prompt_format = "HARMONY_V4" THEN text ELSE <<>>,
         logprobs |-> [tokens |-> [k \in 1..Len(rtoks) |-> rtoks[k].s],
                       text_offset |-> Offsets(rtoks, 0),
                       top_logprobs |-> [k \in 1..Len(rtoks) |-> rtoks[k].table]]]

\* before the marker: nothing, prompt text, or a few-shot example with its own
\* marker and line; the marker: whole, without its newline, absent; after the
\* subject lines: nothing, a newline, a further marker
ResponsesFor(tokens, prompt_format) ==
    LET start == Plain(Tail(START_PREFIX))
        nl == Plain(<<"\n">>)
        Prefixes ==
            {<<>>,
             <<Plain(<<"T", "e", "x", "t">>)>>,
             <<nl, start>> \o LineTokens(<<"A">>, "ok", ResponseTable("mixed"))}
        Markers == {<<nl, start>>, <<start>>, <<>>}
        Suffixes == {<<>>, <<nl>>, <<nl, start, nl>>}
    IN  {BuildResponse(
            pre \o mk
                \o Flatten([k \in 1..Len(tokens) |->
                               LineTokens(tokens[k], c[k][1], c[k][2])])
                \o suf, prompt_format) :
            pre \in Prefixes, mk \in Markers, suf \in Suffixes,
            c \in LineChoices(Len(tokens))}

ParseSimulationResponse ==
    /\ lp_pc = "call"
    /\ lp_result' = parse_simulation_response(lp_response, lp_format, lp_tokens)
    /\ lp_pc' = lp_result'.outcome
    /\ UNCHANGED <<lp_format, lp_response, lp_tokens>>
    /\ UNCHANGED <<statsVars, tbtVars, freeVars, textVars, simVars>>

---------------------------------------------------------------------------
(* float(): Python's conversion of a str, restricted to the literals the   *)
(* inputs below use (optionally signed integers and "nan", surrounded by   *)
(* whitespace).  A parsed value is [nan, v].                               *)

Num(v) == [nan |-> FALSE, v |-> v]
NaN == [nan |-> TRUE, v |-> 0]

FloatOk(x) == [kind |-> "ok", value |-> x]
FloatError(kind) == [kind |-> kind, value |-> Num(0)]

PyFloat(s) ==
    LET t == Strip(s, Whitespace)
        body == IF t # <<>> /\ Head(t) \in {"-", "+"} THEN Tail(t) ELSE t
    IN  IF body = <<"n", "a", "n">> THEN FloatOk(NaN)
        ELSE IF AllDigits(body)
        THEN FloatOk(Num(IF Head(t) = "-" THEN 0 - NatOfDigits(body) ELSE NatOfDigits(body)))
        ELSE FloatError("ValueError")

\* x < 0 or x > MAX_NORMALIZED_ACTIVATION: both comparisons are False for nan
OutOfRange(x) == ~x.nan /\ (x.v < 0 \/ x.v > MAX_NORMALIZED_ACTIVATION)

\* [0] * len(tokens)
zero_prediction(tokens) == [k \in 1..Len(tokens) |-> Num(0)]

---------------------------------------------------------------------------
(* JSON values as Python objects.                                          *)
(*   leaf:        [t, n, s]            num | str | null | bool             *)
(*   entry:       [t, keys, token, activation, s]   dict | num | null | str*)
(*   activations: [t, items]           list | null                         *)
(*   completion:  [t, keys, activations, s]   dict | null | str | list     *)

JNum(n) == [t |-> "num", n |-> n, s |-> <<>>]
JStr(s) == [t |-> "str", n |-> 0, s |-> s]
JNull == [t |-> "null", n |-> 0, s |-> <<>>]
JBool(b) == [t |-> "bool", n |-> IF b THEN 1 ELSE 0, s |-> <<>>]

\* float(x) of a leaf
FloatOf(x) ==
    CASE x.t = "num" -> FloatOk(Num(x.n))
      [] x.t = "bool" -> FloatOk(Num(x.n))
      [] x.t = "str" -> PyFloat(x.s)
      [] x.t = "null" -> FloatError("TypeError")

KeyChars(key) ==
    CASE key = "token" -> <<"t", "o", "k", "e", "n">>
      [] key = "activation" -> <<"a", "c", "t", "i", "v", "a", "t", "i", "o", "n">>
      [] key = "activations" ->
            <<"a", "c", "t", "i", "v", "a", "t", "i", "o", "n", "s">>

\* `key in x`: a key of a dict, a substring of a str, an element of a list
\* (the lists here hold no strings); TypeError for None and numbers
KeyIn(key, x) ==
    CASE x.t = "dict" -> IF key \in x.keys THEN "True" ELSE "False"
      [] x.t = "str" -> IF Find(x.s, KeyChars(key)) # -1 THEN "True" ELSE "False"
      [] x.t = "list" -> "False"
      [] OTHER -> "TypeError"

EntryDict(keys, token, activation) ==
    [t |-> "dict", keys |-> keys, token |-> token, activation |-> activation, s |-> <<>>]
\* an entry that is no dict: a number, None or a str
EntryOther(t, s) ==
    [t |-> t, keys |-> {}, token |-> <<>>, activation |-> JNull, s |-> s]

\* lines 580-629: what one entry of activations appends, or the exception
\* that leaves the function
ParseEntry(activation) ==
    IF KeyIn("token", activation) = "TypeError" THEN Raised("TypeError")
    ELSE IF KeyIn("token", activation) = "False" THEN Returned(Num(0))
    ELSE IF KeyIn("activation", activation) = "False" THEN Returned(Num(0))
    \* activation["activation"] of a str raises TypeError inside the inner try
    ELSE IF activation.t # "dict" THEN Returned(Num(0))
    ELSE LET f == FloatOf(activation.activation)
         IN  IF f.kind # "ok" THEN Returned(Num(0))
             ELSE IF OutOfRange(f.value) THEN Returned(Num(0))
             ELSE Returned(f.value)

RECURSIVE ParseEntries(_, _)
ParseEntries(items, acc) ==
    IF items = <<>> THEN Returned(acc)
    ELSE LET r == ParseEntry(Head(items))
         IN  IF r.outcome = "raised" THEN r
             ELSE ParseEntries(Tail(items), Append(acc, r.value))

\* only json.JSONDecodeError is caught around the body, and nothing in it
\* raises that
parse_no_logprobs_completion_json(comp, tokens) ==
    IF KeyIn("activations", comp) = "TypeError" THEN Raised("TypeError")
    ELSE IF KeyIn("activations", comp) = "False" THEN Returned(zero_prediction(tokens))
    \* completion["activations"] of a str
    ELSE IF comp.t # "dict" THEN Raised("TypeError")
    \* len(activations) of None
    ELSE IF comp.activations.t # "list" THEN Raised("TypeError")
    ELSE IF Len(comp.activations.items) # Len(tokens) THEN Returned(zero_prediction(tokens))
    ELSE ParseEntries(comp.activations.items, <<>>)

(* Inputs: completions of the JSON encoding. *)

JList(items) == [t |-> "list", items |-> items]
JNoList == [t |-> "null", items |-> <<>>]

CompDict(keys, activations) == [t |-> "dict", keys |-> keys, activations |-> activations, s |-> <<>>]
\* a completion that is no dict: None, a str or a list
CompOther(t, s) == [t |-> t, keys |-> {}, activations |-> JNoList, s |-> s]
NoCompletion == CompOther("none", <<>>)

\* entries for the position of subject token tok; the activation values: in
\* range, out of range, numeric and other strings, "nan", null, a boolean
EntriesFor(tok) ==
    LET JsonValues ==
            {JNum(3), JNum(11), JNum(0 - 1), JStr(StrOfNat(7)), JStr(<<"x">>),
             JStr(<<"n", "a", "n">>), JNull, JBool(TRUE)}
    IN  {EntryDict({"token", "activation"}, tok, v) : v \in JsonValues}
        \cup {EntryDict({"token", "activation"}, <<"Z">>, JNum(3)),
              EntryDict({"activation"}, <<>>, JNum(3)),
              EntryDict({"token"}, tok, JNull),
              EntryOther("num", <<>>), EntryOther("null", <<>>),
              EntryOther("str", KeyChars("token"))}

\* activations lists of n entries, entry k made for tokens[k] (Z past the end)
RECURSIVE ItemsFor(_, _)
ItemsFor(tokens, n) ==
    IF n = 0 THEN {<<>>}
    ELSE {Append(q, e) : q \in ItemsFor(tokens, n - 1),
                         e \in EntriesFor(IF n <= Len(tokens) THEN tokens[n] ELSE <<"Z">>)}

JsonCompletionsFor(tokens) ==
    {CompDict({"to_find", "document", "activations"}, JList(items)) :
        items \in UNION {ItemsFor(tokens, n) : n \in 0..MaxTokens}}
    \cup {CompDict({"to_find", "document"}, JNoList),
          CompDict({"to_find", "document", "activations"}, JNoList),
          CompOther("null", <<>>), CompOther("str", KeyChars("activations")),
          CompOther("str", <<"x">>), CompOther("list", <<>>)}

---------------------------------------------------------------------------
(* LogprobFreeExplanationTokenSimulator.simulate. *)

FreePrompt(encoding, explanation, tokens) ==
    [encoding |-> encoding, explanation |-> explanation, tokens |-> tokens]

FreeRequest(prompt, max_tokens, with_schema) ==
    [prompt |-> prompt, max_tokens |-> max_tokens, temperature |-> 0,
     schema |-> with_schema]

NoRequest == FreeRequest(FreePrompt("none", <<>>, <<>>), 0, FALSE)

\* the mutant: the request of either mode sampled at temperature 1
SimulateRequestSampled(mode, explanation, tokens) ==
    [FreeRequest(FreePrompt(IF mode THEN "json" ELSE "text", explanation, tokens),
                 IF mode THEN 2000 ELSE 1000, mode)
        EXCEPT !.temperature = 1]

\* lines 837-845 and 859-865: the request of each mode
SimulateRequest(mode, explanation, tokens) ==
    IF mode
    THEN FreeRequest(FreePrompt("json", explanation, tokens), 2000, TRUE)
    ELSE FreeRequest(FreePrompt("text", explanation, tokens), 1000, FALSE)

\* lines 855-857 and 866-870: json_mode parses the response; the text mode
\* leaves predicted_activations = [] (its parsing is commented out)
PredictedActivations(mode, response, tokens) ==
    IF mode THEN parse_no_logprobs_completion_json(response, tokens)
    ELSE Returned(<<>>)

\* lines 872-879
FreeSimulation(tokens, predicted_activations) ==
    [tokens |-> tokens, expected_activations |-> predicted_activations,
     distribution_values |-> <<>>, distribution_probabilities |-> <<>>]

\* the text mode's answer is a str (never parsed)
FreeResponsesFor(mode, tokens) ==
    IF mode THEN JsonCompletionsFor(tokens)
    ELSE {CompOther("str", <<>>), CompOther("str", <<"x">>)}

\* simulate is called: the prompt is built (assert explanation != "") and the
\* request is sent
FreeSimulate ==
    /\ free_pc = "idle"
    /\ IF free_explanation = <<>>
       THEN /\ free_pc' = "raised"
            /\ UNCHANGED free_request
       ELSE /\ free_pc' = "awaiting"
            /\ free_request' = SimulateRequest(json_mode, free_explanation, free_tokens)
    /\ UNCHANGED <<json_mode, free_tokens, free_explanation, free_response,
                   free_result, free_previous>>
    /\ UNCHANGED <<statsVars, tbtVars, lpVars, textVars, simVars>>

\* client.generate returns: the response is parsed and simulate returns, or
\* the parser's exception leaves simulate
FreeRespond(response) ==
    /\ free_pc = "awaiting"
    /\ free_response' = response
    /\ LET parsed == PredictedActivations(json_mode, response, free_tokens)
       IN  IF parsed.outcome = "raised"
           THEN /\ free_pc' = "raised"
                /\ UNCHANGED free_result
           ELSE /\ free_pc' = "returned"
                /\ free_result' = FreeSimulation(free_tokens, parsed.value)
    /\ UNCHANGED <<json_mode, free_tokens, free_explanation, free_request,
                   free_previous>>
    /\ UNCHANGED <<statsVars, tbtVars, lpVars, textVars, simVars>>

\* client.generate raises
FreeGenerateFails ==
    /\ free_pc = "awaiting"
    /\ free_pc' = "raised"
    /\ UNCHANGED <<json_mode, free_tokens, free_explanation, free_request,
                   free_response, free_result, free_previous>>
    /\ UNCHANGED <<statsVars, tbtVars, lpVars, textVars, simVars>>

\* simulate has returned or raised, and the same simulator is asked to
\* simulate the same tokens again; free_previous keeps how the invocation
\* before this one went
FreeSimulateAgain ==
    /\ free_pc \in {"returned", "raised"}
    /\ free_previous' = <<[pc |-> free_pc, request |-> free_request,
                           response |-> free_response, result |-> free_result]>>
    /\ free_pc' = "idle"
    /\ free_request' = NoRequest
    /\ free_response' = NoCompletion
    /\ free_result' = NoResult
    /\ UNCHANGED <<json_mode, free_tokens, free_explanation>>
    /\ UNCHANGED <<statsVars, tbtVars, lpVars, textVars, simVars>>

---------------------------------------------------------------------------
(* _parse_no_logprobs_completion: the delimited-text parser. *)

END_OF_TEXT_TOKEN ==
    <<"<", "|", "e", "n", "d", "o", "f", "t", "e", "x", "t", "|", ">">>
END_OF_TEXT_TOKEN_REPLACEMENT ==
    <<"<", "|", "n", "o", "t", "_", "e", "n", "d", "o", "f", "t", "e", "x", "t", "|", ">">>

\* one character standing for the delimiter U+0F17 of the source
DELIM == "#"
TAB == "\t"
NEWLINE == "\n"

\* the mutant: without the FIX of line 666, only the newlines are stripped
StrippedCompletionNoFix(text) == Strip(text, {NEWLINE})

\* completion.strip("\n").strip(DELIM + "\n")
StrippedCompletion(text) == Strip(Strip(text, {NEWLINE}), {DELIM, NEWLINE})

\* lines 666-671: split on the delimiter and newline; a single segment is
\* split again on newlines alone
TokenLines(text) ==
    LET by_delim == Split(StrippedCompletion(text), <<DELIM, NEWLINE>>)
    IN  IF Len(by_delim) = 1 THEN Split(StrippedCompletion(text), <<NEWLINE>>)
        ELSE by_delim

\* lines 676-686: the test of the start-line search
MatchesFirstToken(token_line, token) ==
    \/ StartsWith(token_line, token \o <<TAB>>)
    \/ StartsWith(<<" ">> \o token_line, token \o <<TAB>>)
    \/ /\ StartsWith(token_line, END_OF_TEXT_TOKEN_REPLACEMENT)
       /\ Strip(token, Whitespace) = END_OF_TEXT_TOKEN

\* lines 702-709: the test of the per-position loop (negated in the source)
MatchesToken(token_line, token) ==
    \/ StartsWith(token_line, token \o <<TAB>>)
    \/ StartsWith(<<" ">> \o token_line, token \o <<TAB>>)
    \/ StartsWith(token_line, END_OF_TEXT_TOKEN_REPLACEMENT)

\* the mutant: only the first line may be the start line
StartLineIndexFirstOnly(token_lines, token) ==
    IF MatchesFirstToken(token_lines[1], token) THEN 0 ELSE -1

\* lines 674-690: the 0-based index of the first matching line, -1 for None
StartLineIndex(token_lines, token) ==
    LET hits == {k \in 1..Len(token_lines) : MatchesFirstToken(token_lines[k], token)}
    IN  IF hits = {} THEN -1 ELSE (CHOOSE k \in hits : \A j \in hits : k <= j) - 1

\* lines 716-739: the value one matched line appends
LineValue(token_line) ==
    LET predicted_activation_split == Split(token_line, <<TAB>>)
    IN  IF Len(predicted_activation_split) # 2 THEN Num(0)
        ELSE LET f == PyFloat(predicted_activation_split[2])
             IN  IF f.kind # "ok" THEN Num(0)
                 ELSE IF OutOfRange(f.value) THEN Num(0)
                 ELSE f.value

\* lines 700-741: the per-position loop, from position i on
RECURSIVE ParseLines(_, _, _, _)
ParseLines(lines, tokens, i, acc) ==
    IF i > Len(lines) THEN acc
    ELSE IF ~MatchesToken(lines[i], tokens[i]) THEN zero_prediction(tokens)
    ELSE ParseLines(lines, tokens, i + 1, Append(acc, LineValue(lines[i])))

\* tokens[0] of an empty list raises IndexError in the start-line search
parse_no_logprobs_completion(text, tokens) ==
    LET token_lines == TokenLines(text)
    IN  IF tokens = <<>> THEN Raised("IndexError")
        ELSE LET start_line_index == StartLineIndex(token_lines, tokens[1])
             IN  IF \/ start_line_index = -1
                    \/ Len(token_lines) - start_line_index # Len(tokens)
                 THEN Returned(zero_prediction(tokens))
                 ELSE Returned(ParseLines(
                         SubSeq(token_lines, start_line_index + 1, Len(token_lines)),
                         tokens, 1, <<>>))

(* Inputs: completions, written as the predictor is asked to write them    *)
(* (token TAB value DELIM newline per subject token) with at most one line *)
(* that deviates, an optional change of structure, and either separator.   *)

TextTokenSeqs == SeqsUpTo({<<"A">>, <<" ", "B">>, END_OF_TEXT_TOKEN}, MaxTokens)

\* activation values a faithful completion carries
ValueNats == {0, 3, 10}
\* the values of the lines of a completion with a deviating line
DefaultValue(k) == IF k % 2 = 1 THEN 3 ELSE 10

Separators == {<<DELIM, NEWLINE>>, <<NEWLINE>>}

FaithfulLine(token, v) == token \o <<TAB>> \o StrOfNat(v)

DeviatingLine(token, v, dev) ==
    CASE dev = "drop_space" -> FaithfulLine(LStrip(token, {" "}), v)
      [] dev = "placeholder" -> FaithfulLine(END_OF_TEXT_TOKEN_REPLACEMENT, v)
      [] dev = "other_token" -> FaithfulLine(<<"Z">>, v)
      [] dev = "no_tab" -> token \o <<" ">> \o StrOfNat(v)
      [] dev = "two_tabs" -> FaithfulLine(token, v) \o <<TAB, "x">>
      [] dev = "value_15" -> token \o <<TAB>> \o StrOfNat(15)
      [] dev = "value_word" -> token \o <<TAB, "x">>
      [] dev = "value_nan" -> token \o <<TAB, "n", "a", "n">>
      [] dev = "value_negative" -> token \o <<TAB, "-", "1">>
      [] dev = "value_empty" -> token \o <<TAB>>
      [] dev = "extra_delim" -> FaithfulLine(token, v) \o <<DELIM>>

Str_preamble == <<"S", "u", "r", "e", ":">>

\* the lines of a completion, each ended by the separator
JoinLines(lines, sep) == Flatten([k \in 1..Len(lines) |-> lines[k] \o sep])

WithStructure(lines, structure) ==
    CASE structure = "exact" -> lines
      [] structure = "extra_line" -> Append(lines, FaithfulLine(<<"Z">>, 3))
      [] structure = "missing_last" ->
            IF lines = <<>> THEN lines ELSE SubSeq(lines, 1, Len(lines) - 1)
      [] structure = "preamble" -> <<Str_preamble>> \o lines

\* t_i TAB v_i DELIM newline for every subject token
FaithfulCompletion(tokens, values) ==
    JoinLines([k \in 1..Len(tokens) |-> FaithfulLine(tokens[k], values[k])],
              <<DELIM, NEWLINE>>)

TextCompletionsFor(tokens) ==
    LET n == Len(tokens)
        faithful == {[k \in 1..n |-> FaithfulLine(tokens[k], vs[k])] :
                        vs \in SeqsOfLen(ValueNats, n)}
        deviating == {[k \in 1..n |->
                         IF k = p THEN DeviatingLine(tokens[k], DefaultValue(k), dev)
                         ELSE FaithfulLine(tokens[k], DefaultValue(k))] :
                        p \in 1..n,
                        dev \in {"drop_space", "placeholder", "other_token", "no_tab",
                                 "two_tabs", "value_15", "value_word", "value_nan",
                                 "value_negative", "value_empty", "extra_delim"}}
    IN  {JoinLines(WithStructure(lines, st), sep) :
            lines \in faithful \cup deviating,
            st \in {"exact", "extra_line", "missing_last", "preamble"},
            sep \in Separators}

ParseNoLogprobsCompletion ==
    /\ text_pc = "call"
    /\ text_result' = parse_no_logprobs_completion(completion, text_tokens)
    /\ text_pc' = text_result'.outcome
    /\ UNCHANGED <<completion, text_tokens>>
    /\ UNCHANGED <<statsVars, tbtVars, lpVars, freeVars, simVars>>

---------------------------------------------------------------------------
(* The constructors of the three simulators and the prompts they build.    *)
(* A prompt is the sequence of messages handed to PromptBuilder.add_message*)
(* in order.  The content of a message is the record of the values its     *)
(* f-string interpolates; the fixed instruction text is left out.  The     *)
(* output of format_activation_records, format_sequences_for_simulation    *)
(* and normalize_activations is carried as the arguments they are given.   *)

MaxExamples == 2

SimulatorKinds ==
    {"ExplanationNeuronSimulator", "ExplanationTokenByTokenSimulator",
     "LogprobFreeExplanationTokenSimulator"}

\* the members of FewShotExampleSet the constructors name: the legacy set
\* and the default of the token-by-token and logprob-free simulators
FewShotExampleSets == {"ORIGINAL", "NEWER"}

Message(role, content) == [role |-> role, content |-> content]

ActivationRecord(tokens, activations) ==
    [tokens |-> tokens, activations |-> activations]

\* seq[:n] for n >= 0
Prefix(seq, n) == SubSeq(seq, 1, IF n < Len(seq) THEN n ELSE Len(seq))

\* what few_shot_example_set.get_examples() can return: each example has an
\* explanation and one or more activation records
FewShotExamples ==
    LET one == [explanation |-> <<"x">>,
                activation_records |->
                    <<ActivationRecord(<<<<"A">>>>, <<3>>)>>]
        two == [explanation |-> <<"y">>,
                activation_records |->
                    <<ActivationRecord(<<<<" ", "B">>, END_OF_TEXT_TOKEN>>, <<0, 5>>),
                      ActivationRecord(<<<<"A">>>>, <<1>>)>>]
    IN  SeqsUpTo({one, two}, MaxExamples)

\* few_shot_example_set.get_single_token_prediction_example()
SingleTokenExample ==
    [explanation |-> <<"z">>,
     activation_records |->
         <<ActivationRecord(<<<<"A">>, <<" ", "B">>, <<"A">>>>, <<0, 7, 2>>)>>,
     token_index_to_score |-> 1]

\* the mutant: a constructor without the assert
ConstructorRejectsNone(kind, few_shot_example_set) == FALSE

\* lines 313-316 and 820-823: the assert of the token-by-token and the
\* logprob-free constructors; ExplanationNeuronSimulator has none
ConstructorRejects(kind, few_shot_example_set) ==
    /\ kind \in {"ExplanationTokenByTokenSimulator",
                 "LogprobFreeExplanationTokenSimulator"}
    /\ few_shot_example_set = "ORIGINAL"

\* line 317: only ExplanationTokenByTokenSimulator creates an ApiClient; the
\* other two store the client they are given
CreatesApiClient(kind) == kind = "ExplanationTokenByTokenSimulator"

\* the few-shot messages of make_simulation_prompt and
\* make_single_token_simulation_prompt: the explanation, then the records
\* given to format_activation_records
ExplanationAndRecordsPairs(few_shot_examples) ==
    Flatten([k \in 1..Len(few_shot_examples) |->
        <<Message("user", [explanation |-> few_shot_examples[k].explanation]),
          Message("assistant",
                  [format_activation_records |->
                       few_shot_examples[k].activation_records])>>])

\* the mutant: the subject tokens in the final user message
make_simulation_prompt_user_last(few_shot_examples, explanation, tokens) ==
    [messages |->
        <<Message("system", [instructions |-> "all_at_once"])>>
        \o ExplanationAndRecordsPairs(few_shot_examples)
        \o <<Message("user",
                     [explanation |-> Strip(explanation, Whitespace),
                      format_sequences_for_simulation |-> <<tokens>>])>>,
     records |-> <<>>]

\* ExplanationNeuronSimulator.make_simulation_prompt
make_simulation_prompt(few_shot_examples, explanation, tokens) ==
    [messages |->
        <<Message("system", [instructions |-> "all_at_once"])>>
        \o ExplanationAndRecordsPairs(few_shot_examples)
        \o <<Message("user", [explanation |-> Strip(explanation, Whitespace)]),
             Message("assistant",
                     [format_sequences_for_simulation |-> <<tokens>>])>>,
     records |-> <<>>]

\* _add_single_token_simulation_subprompt: the trimmed record, the user
\* message and, unless end_of_prompt, the assistant message with
\* normalize_activations(trimmed.activations, ...)[-1]
add_single_token_simulation_subprompt(activation_record, explanation, token_index_to_score, end_of_prompt) ==
    LET trimmed_activation_record ==
            ActivationRecord(
                Prefix(activation_record.tokens, token_index_to_score + 1),
                Prefix(activation_record.activations, token_index_to_score + 1))
        shown == trimmed_activation_record.tokens
    IN  [messages |->
            <<Message("user",
                      [explanation |-> Strip(explanation, Whitespace),
                       text |-> Flatten(shown),
                       last_token |-> shown[Len(shown)]])>>
            \o IF end_of_prompt THEN <<>>
               ELSE <<Message("assistant",
                              [normalize_activations |->
                                   trimmed_activation_record.activations])>>,
         records |-> <<trimmed_activation_record>>]

\* ExplanationTokenByTokenSimulator.make_single_token_simulation_prompt
\* after its assert: every message added and every ActivationRecord built
single_token_simulation_prompt(few_shot_examples, tokens, explanation, token_index_to_score) ==
    LET example_subprompt ==
            add_single_token_simulation_subprompt(
                SingleTokenExample.activation_records[1], explanation,
                SingleTokenExample.token_index_to_score, FALSE)
        activation_record ==
            ActivationRecord(Prefix(tokens, token_index_to_score + 1),
                             [k \in 1..Len(tokens) |-> 0])
        subject_subprompt ==
            add_single_token_simulation_subprompt(
                activation_record, explanation, token_index_to_score, TRUE)
    IN  [messages |->
            <<Message("system", [instructions |-> "token_by_token"])>>
            \o ExplanationAndRecordsPairs(few_shot_examples)
            \o <<Message("system", [instructions |-> "single_token"])>>
            \o example_subprompt.messages
            \o subject_subprompt.messages,
         records |->
            example_subprompt.records \o <<activation_record>>
            \o subject_subprompt.records]

\* lines 502-503: the token a line of the delimited-text encoding shows
ShownToken(token) ==
    IF Strip(token, Whitespace) = END_OF_TEXT_TOKEN
    THEN END_OF_TEXT_TOKEN_REPLACEMENT
    ELSE token

\* _format_record_for_logprob_free_simulation: one line
\* token TAB activation DELIM NEWLINE per token, the activation blank or
\* normalize_activations(...)[i]; the assert on the lengths holds for every
\* record of FewShotExamples
format_record_for_logprob_free_simulation(activation_record, include_activations) ==
    [k \in 1..Len(activation_record.tokens) |->
        [token |-> ShownToken(activation_record.tokens[k]),
         activation |->
             IF include_activations
             THEN <<"normalize_activations", activation_record.activations[k]>>
             ELSE <<>>]]

\* _format_record_for_logprob_free_simulation_json: the object json.dumps
\* serialises
format_record_for_logprob_free_simulation_json(explanation, activation_record, include_activations) ==
    [to_find |-> explanation,
     document |-> Flatten(activation_record.tokens),
     activations |->
         [k \in 1..Len(activation_record.tokens) |->
             [token |-> activation_record.tokens[k],
              activation |->
                  IF include_activations
                  THEN JNum(activation_record.activations[k])
                  ELSE JNull]]]

\* _make_simulation_prompt_json after its assert
simulation_prompt_json(few_shot_examples, tokens, explanation) ==
    LET subject == ActivationRecord(tokens, <<>>)
    IN  [messages |->
            <<Message("system", [instructions |-> "json"])>>
            \o Flatten([k \in 1..Len(few_shot_examples) |->
                <<Message("user",
                          format_record_for_logprob_free_simulation_json(
                              few_shot_examples[k].explanation,
                              few_shot_examples[k].activation_records[1], FALSE)),
                  Message("assistant",
                          format_record_for_logprob_free_simulation_json(
                              few_shot_examples[k].explanation,
                              few_shot_examples[k].activation_records[1], TRUE))>>])
            \o <<Message("user",
                         format_record_for_logprob_free_simulation_json(
                             explanation, subject, FALSE))>>,
         records |-> <<subject>>]

\* the user/assistant pair of one record of a few-shot example in
\* _make_simulation_prompt; the first record's user message has the
\* example's explanation
TextExamplePairs(example) ==
    Flatten([r \in 1..Len(example.activation_records) |->
        <<Message("user",
                  [explanation |-> IF r = 1 THEN example.explanation ELSE <<>>,
                   sequence |-> r,
                   lines |-> format_record_for_logprob_free_simulation(
                                 example.activation_records[r], FALSE)]),
          Message("assistant",
                  [lines |-> format_record_for_logprob_free_simulation(
                                 example.activation_records[r], TRUE)])>>])

\* _make_simulation_prompt after its assert
simulation_prompt_text(few_shot_examples, tokens, explanation) ==
    LET subject == ActivationRecord(tokens, <<>>)
    IN  [messages |->
            <<Message("system", [instructions |-> "text"])>>
            \o Flatten([k \in 1..Len(few_shot_examples) |->
                            TextExamplePairs(few_shot_examples[k])])
            \o <<Message("user",
                         [explanation |-> explanation,
                          sequence |-> 1,
                          lines |-> format_record_for_logprob_free_simulation(
                                        subject, FALSE)])>>,
         records |-> <<subject>>]

\* the prompt builder a simulator of this kind calls
BuildPrompt(kind, mode, few_shot_examples, tokens, explanation, token_index_to_score) ==
    CASE kind = "ExplanationNeuronSimulator" ->
            make_simulation_prompt(few_shot_examples, explanation, tokens)
      [] kind = "ExplanationTokenByTokenSimulator" ->
            single_token_simulation_prompt(few_shot_examples, tokens, explanation,
                                           token_index_to_score)
      [] kind = "LogprobFreeExplanationTokenSimulator" /\ mode ->
            simulation_prompt_json(few_shot_examples, tokens, explanation)
      [] OTHER ->
            simulation_prompt_text(few_shot_examples, tokens, explanation)

\* __init__ of the three simulators
Construct ==
    /\ sim_pc = "new"
    /\ IF ConstructorRejects(sim_kind, sim_example_set)
       THEN /\ sim_pc' = "construct_raised"
            /\ UNCHANGED sim_api_client
       ELSE /\ sim_pc' = "constructed"
            /\ sim_api_client' = CreatesApiClient(sim_kind)
    /\ UNCHANGED <<sim_kind, sim_json_mode, sim_example_set, sim_examples,
                   sim_explanation, sim_tokens, sim_messages, sim_records>>
    /\ UNCHANGED <<statsVars, tbtVars, lpVars, freeVars, textVars>>

\* the constructed simulator builds the prompt of one request: the
\* token-by-token simulator for one token index of range(len(tokens)).
\* Lines 421, 890 and 975: assert explanation != ""
MakePrompt(token_index_to_score) ==
    /\ sim_pc = "constructed"
    /\ IF sim_kind = "ExplanationTokenByTokenSimulator"
       THEN token_index_to_score < Len(sim_tokens)
       ELSE token_index_to_score = 0
    /\ IF sim_kind # "ExplanationNeuronSimulator" /\ sim_explanation = <<>>
       THEN /\ sim_pc' = "raised"
            /\ UNCHANGED <<sim_messages, sim_records>>
       ELSE LET built == BuildPrompt(sim_kind, sim_json_mode, sim_examples,
                                     sim_tokens, sim_explanation,
                                     token_index_to_score)
            IN  /\ sim_pc' = "built"
                /\ sim_messages' = built.messages
                /\ sim_records' = built.records
    /\ UNCHANGED <<sim_kind, sim_json_mode, sim_example_set, sim_examples,
                   sim_explanation, sim_tokens, sim_api_client>>
    /\ UNCHANGED <<statsVars, tbtVars, lpVars, freeVars, textVars>>

---------------------------------------------------------------------------
(* The specifications: each runs one operation from its initial states,    *)
(* while the variables of the other operations stay put.                   *)

\* the variables of every operation but op, at rest
Idle(op) ==
    /\ op = "stats" \/
          /\ top_logprobs = <<>>
          /\ stats_pc = "off"
          /\ stats_result = NoStats
    /\ op = "tbt" \/
          /\ tbt_tokens = <<>>
          /\ tbt_explanation = <<>>
          /\ tbt_pc = "off"
          /\ tasks = <<>>
          /\ requests = <<>>
          /\ completed = <<>>
          /\ tbt_result = NoResult
    /\ op = "logprob" \/
          /\ lp_format = "NONE"
          /\ lp_response = BuildResponse(<<>>, "NONE")
          /\ lp_tokens = <<>>
          /\ lp_pc = "off"
          /\ lp_result = Raised("")
    /\ op = "free" \/
          /\ json_mode = FALSE
          /\ free_tokens = <<>>
          /\ free_explanation = <<>>
          /\ free_pc = "off"
          /\ free_request = NoRequest
          /\ free_response = NoCompletion
          /\ free_result = NoResult
          /\ free_previous = <<>>
    /\ op = "text" \/
          /\ completion = <<>>
          /\ text_tokens = <<>>
          /\ text_pc = "off"
          /\ text_result = Raised("")
    /\ op = "prompt" \/
          /\ sim_kind = "none"
          /\ sim_json_mode = FALSE
          /\ sim_example_set = "none"
          /\ sim_examples = <<>>
          /\ sim_explanation = <<>>
          /\ sim_tokens = <<>>
          /\ sim_pc = "off"
          /\ sim_api_client = FALSE
          /\ sim_messages = <<>>
          /\ sim_records = <<>>

\* one call of compute_predicted_activation_stats_for_token on one table
SpecStatsInit ==
    /\ \E n \in 0..MaxCands : top_logprobs \in TablesOfLen(n)
    /\ stats_pc = "call"
    /\ stats_result = NoStats
    /\ Idle("stats")
SpecStats == SpecStatsInit /\ [][ComputeStats]_vars

\* a constructed ExplanationTokenByTokenSimulator, simulate not yet called
SpecTbtInit ==
    /\ tbt_tokens \in PlainTokenSeqs
    /\ tbt_explanation \in Explanations
    /\ tbt_pc = "idle"
    /\ tasks = <<>>
    /\ requests = <<>>
    /\ completed = <<>>
    /\ tbt_result = NoResult
    /\ Idle("tbt")
SpecTbtNext ==
    \/ TbtSimulate
    \/ \E k \in 1..(MaxTokens + 1) : TaskStart(k)
    \/ \E k \in 1..(MaxTokens + 1), table \in ResponseTables : TaskComplete(k, table)
    \/ \E k \in 1..(MaxTokens + 1) : TaskFail(k)
    \/ TbtRaise
    \/ TbtReturn
SpecTbt == SpecTbtInit /\ [][SpecTbtNext]_vars

\* one call of parse_simulation_response
SpecLogprobInit ==
    /\ lp_tokens \in PlainTokenSeqs
    /\ lp_format \in PromptFormats
    /\ lp_response \in ResponsesFor(lp_tokens, lp_format)
    /\ lp_pc = "call"
    /\ lp_result = Raised("")
    /\ Idle("logprob")
SpecLogprob == SpecLogprobInit /\ [][ParseSimulationResponse]_vars

\* a constructed LogprobFreeExplanationTokenSimulator, simulate not yet called
SpecFreeInit ==
    /\ json_mode \in BOOLEAN
    /\ free_tokens \in PlainTokenSeqs
    /\ free_explanation \in Explanations
    /\ free_pc = "idle"
    /\ free_request = NoRequest
    /\ free_response = NoCompletion
    /\ free_result = NoResult
    /\ free_previous = <<>>
    /\ Idle("free")
SpecFreeNext ==
    \/ FreeSimulate
    \/ /\ free_pc = "awaiting"
       /\ \E response \in FreeResponsesFor(json_mode, free_tokens) :
              FreeRespond(response)
    \/ FreeGenerateFails
SpecFree == SpecFreeInit /\ [][SpecFreeNext]_vars

\* the same simulator asked again and again to simulate the same tokens; an
\* invocation after one that got a response gets that response again
SpecFreeAgainNext ==
    \/ FreeSimulate
    \/ /\ free_pc = "awaiting"
       /\ \E response \in
               IF free_previous = <<>> \/ free_previous[1].response = NoCompletion
               THEN FreeResponsesFor(json_mode, free_tokens)
               ELSE {free_previous[1].response} :
             FreeRespond(response)
    \/ FreeGenerateFails
    \/ FreeSimulateAgain
SpecFreeAgain == SpecFreeInit /\ [][SpecFreeAgainNext]_vars

\* one call of _parse_no_logprobs_completion
SpecTextInit ==
    /\ text_tokens \in TextTokenSeqs
    /\ completion \in TextCompletionsFor(text_tokens)
    /\ text_pc = "call"
    /\ text_result = Raised("")
    /\ Idle("text")
SpecText == SpecTextInit /\ [][ParseNoLogprobsCompletion]_vars

\* top_logprobs tables without a valid candidate, and one with two
NoCandidateTables == {<<>>, ResponseTable("other"), ResponseTable("mixed")}

\* one of the three users of compute_predicted_activation_stats_for_token:
\* a call of it, a token-by-token simulate, or a call of
\* parse_simulation_response on a response that has the marker and every
\* subject line, the activation token of each line with one of the tables
\* above
SpecNoCandidateInit ==
    \/ SpecStatsInit
    \/ SpecTbtInit
    \/ /\ lp_tokens \in PlainTokenSeqs
       /\ lp_format \in PromptFormats
       /\ \E tables \in [1..Len(lp_tokens) -> NoCandidateTables] :
              lp_response =
                  BuildResponse(
                      <<Plain(<<"\n">>), Plain(Tail(START_PREFIX))>>
                      \o Flatten([k \in 1..Len(lp_tokens) |->
                                     LineTokens(lp_tokens[k], "ok", tables[k])]),
                      lp_format)
       /\ lp_pc = "call"
       /\ lp_result = Raised("")
       /\ Idle("logprob")
SpecNoCandidateNext ==
    \/ ComputeStats
    \/ TbtSimulate
    \/ \E k \in 1..(MaxTokens + 1) : TaskStart(k)
    \/ \E k \in 1..(MaxTokens + 1), table \in NoCandidateTables : TaskComplete(k, table)
    \/ \E k \in 1..(MaxTokens + 1) : TaskFail(k)
    \/ TbtRaise
    \/ TbtReturn
    \/ ParseSimulationResponse
SpecNoCandidate == SpecNoCandidateInit /\ [][SpecNoCandidateNext]_vars

\* a simulator about to be constructed with these arguments, and the tokens
\* it will be asked to simulate
SpecPromptInit ==
    /\ sim_kind \in SimulatorKinds
    /\ sim_json_mode \in
           IF sim_kind = "LogprobFreeExplanationTokenSimulator"
           THEN BOOLEAN ELSE {FALSE}
    /\ sim_example_set \in FewShotExampleSets
    /\ sim_examples \in FewShotExamples
    /\ sim_explanation \in Explanations \cup {<<" ", "e", " ">>}
    /\ sim_tokens \in TextTokenSeqs
    /\ sim_pc = "new"
    /\ sim_api_client = FALSE
    /\ sim_messages = <<>>
    /\ sim_records = <<>>
    /\ Idle("prompt")
SpecPromptNext ==
    \/ Construct
    \/ \E token_index_to_score \in 0..(MaxTokens - 1) : MakePrompt(token_index_to_score)
SpecPrompt == SpecPromptInit /\ [][SpecPromptNext]_vars

---------------------------------------------------------------------------
(* Claims about compute_predicted_activation_stats_for_token (SpecStats). *)

HasValidCandidate(tl) ==
    \E k \in 1..Len(tl) : \E i \in 0..10 : tl[k].token = StrOfNat(i)

---------------------------------------------------------------------------
(* Claims about ExplanationTokenByTokenSimulator.simulate (SpecTbt). *)

TbtN == Len(tbt_tokens)

\* C2: simulate returns only after all N requests completed, and entry i of
\* expected_activations, distribution_values and distribution_probabilities
\* is computed from the response to the request for token index i, whatever
\* the order of completion.
C2_AssembledByTokenIndex ==
    tbt_pc = "returned" =>
        /\ DOMAIN tasks = 1..TbtN
        /\ \A k \in 1..TbtN : tasks[k].state = "done"
        /\ Len(completed) = TbtN
        /\ Len(tbt_result.expected_activations) = TbtN
        /\ Len(tbt_result.distribution_values) = TbtN
        /\ Len(tbt_result.distribution_probabilities) = TbtN
        /\ \A k \in 1..TbtN :
              LET st == compute_predicted_activation_stats_for_token(tasks[k].response)
              IN  /\ tbt_result.expected_activations[k] = st.expected_value
                  /\ tbt_result.distribution_values[k] = DictKeys(st.norm)
                  /\ tbt_result.distribution_probabilities[k] = DictValues(st.norm)

\* C2 witness: two requests completed in reverse order with different
\* responses, and simulate returned.
C2_Witness ==
    /\ tbt_pc = "returned"
    /\ completed = <<2, 1>>
    /\ tasks[1].response # tasks[2].response

\* C3: a simulate invocation issues at most one request per token index
\* 0..N-1, each a 1-token completion without echo, and exactly one for each
\* index by the time it returns; for N = 0 it issues none and returns the
\* empty SequenceSimulation.
C3_OneRequestPerToken ==
    /\ \A i, j \in 1..Len(requests) :
          i # j => requests[i].token_index # requests[j].token_index
    /\ \A i \in 1..Len(requests) :
          /\ requests[i].token_index \in 0..(TbtN - 1)
          /\ requests[i].max_tokens = 1
          /\ requests[i].echo = FALSE
    /\ tbt_pc = "returned" =>
          /\ Len(requests) = TbtN
          /\ {requests[i].token_index : i \in 1..Len(requests)} = 0..(TbtN - 1)
    /\ (TbtN = 0 /\ tbt_pc # "idle") =>
          /\ requests = <<>>
          /\ tbt_pc = "returned"
          /\ tbt_result.tokens = <<>>
          /\ tbt_result.expected_activations = <<>>
          /\ tbt_result.distribution_values = <<>>
          /\ tbt_result.distribution_probabilities = <<>>

\* C3 witness: simulate returned for two tokens, the request for token
\* index 1 having been sent first.
C3_Witness ==
    /\ tbt_pc = "returned"
    /\ Len(requests) = 2
    /\ requests[1].token_index = 1

\* C6: once one of the per-token requests has raised, simulate never returns
\* a SequenceSimulation: while it still awaits the gather it can only raise,
\* whatever the state of the other requests.
C6_AnyFailureIsFatal ==
    (\E k \in DOMAIN tasks : tasks[k].state = "raised") =>
        /\ tbt_pc \in {"gathering", "raised"}
        /\ tbt_result = NoResult
        /\ tbt_pc = "gathering" => (ENABLED TbtRaise /\ ~ENABLED TbtReturn)

\* C6 witness: simulate raised while one request had completed and another
\* was still in flight.
C6_Witness ==
    /\ tbt_pc = "raised"
    /\ \E k \in DOMAIN tasks : tasks[k].state = "done"
    /\ \E k \in DOMAIN tasks : tasks[k].state = "raised"

---------------------------------------------------------------------------
(* Claims about parse_simulation_response (SpecLogprob). *)

LpText == ResponseText(lp_response, lp_format)
LpN == Len(lp_tokens)

\* "\n<start>" and then "\n" + t_i + "\tunknown" for every subject token
ProtocolText(tokens) ==
    START_PREFIX \o Flatten([k \in 1..Len(tokens) |-> UnknownLine(tokens[k])])

\* the offset right after the tab of line i, when the protocol text starts at k0
TabOffset(k0, tokens, i) ==
    k0 + Len(ProtocolText(SubSeq(tokens, 1, i - 1))) + Len(UnknownLineHead(tokens[i]))

\* the protocol text is at k0 and text_offset holds every tab offset
ProtocolAt(k0) ==
    /\ OccursAt(LpText, ProtocolText(lp_tokens), k0)
    /\ \A i \in 1..LpN :
          \E j \in 1..Len(lp_response.logprobs.text_offset) :
              lp_response.logprobs.text_offset[j] = TabOffset(k0, lp_tokens, i)

\* the table of the response token that starts at offset off
TableAtOffset(off) ==
    lp_response.logprobs.top_logprobs[
        CHOOSE j \in 1..Len(lp_response.logprobs.text_offset) :
            lp_response.logprobs.text_offset[j] = off]

\* N entries in input order, the i-th from the table at the tab offset of line i
ParsedFrom(k0) ==
    /\ lp_pc = "returned"
    /\ lp_result.value.tokens = lp_tokens
    /\ Len(lp_result.value.expected_activations) = LpN
    /\ Len(lp_result.value.distribution_values) = LpN
    /\ Len(lp_result.value.distribution_probabilities) = LpN
    /\ \A i \in 1..LpN :
          LET st == compute_predicted_activation_stats_for_token(
                        TableAtOffset(TabOffset(k0, lp_tokens, i)))
          IN  /\ lp_result.value.expected_activations[i] = st.expected_value
              /\ lp_result.value.distribution_values[i] = DictKeys(st.norm)
              /\ lp_result.value.distribution_probabilities[i] = DictValues(st.norm)

\* C4 (as claimed): a response whose text does not contain "\n<start>\n"
\* makes parse_simulation_response raise, for every subject token list.
C4_MissingMarkerRaises ==
    (lp_pc # "call" /\ Find(LpText, START_MARKER) = -1) => lp_pc = "raised"

\* C7 (as claimed): if the text contains "\n<start>" followed by the lines
\* "\n" + t_i + "\tunknown" with every tab offset in text_offset, the parser
\* returns N entries in input order, each from the table at its tab offset.
C7_AnyMarkerProtocol ==
    (lp_pc # "call" /\ \E k0 \in 0..Len(LpText) : ProtocolAt(k0)) =>
        \E k1 \in 0..Len(LpText) : ProtocolAt(k1) /\ ParsedFrom(k1)

\* C7 (amended): if the LAST occurrence of "\n<start>\n" in the text starts
\* "\n<start>" followed by the lines "\n" + t_i + "\tunknown" with every tab
\* offset in text_offset, the parser returns N entries in input order, each
\* from the table of the response token at the tab offset of its line.
C7_LastMarkerProtocol ==
    (/\ lp_pc # "call"
     /\ RFind(LpText, START_MARKER) # -1
     /\ ProtocolAt(RFind(LpText, START_MARKER))) =>
        ParsedFrom(RFind(LpText, START_MARKER))

\* C7 witness: two subject lines with different tables after the second of
\* two markers, parsed.
C7_Witness ==
    /\ lp_pc = "returned"
    /\ LpN = 2
    /\ Find(LpText, START_MARKER) # RFind(LpText, START_MARKER)
    /\ ProtocolAt(RFind(LpText, START_MARKER))
    /\ lp_result.value.expected_activations[1] # lp_result.value.expected_activations[2]

---------------------------------------------------------------------------
(* Claims about LogprobFreeExplanationTokenSimulator.simulate and          *)
(* _parse_no_logprobs_completion_json (SpecFree).                          *)

\* C1 (as claimed): whatever the mode and the predictor's response, simulate
\* returns a SequenceSimulation with len(tokens) expected activations, the
\* input tokens and empty distribution fields.
C1_WellFormedSimulation ==
    free_response # NoCompletion =>
        /\ free_pc = "returned"
        /\ free_result.tokens = free_tokens
        /\ Len(free_result.expected_activations) = Len(free_tokens)
        /\ free_result.distribution_values = <<>>
        /\ free_result.distribution_probabilities = <<>>

\* C5 (as claimed): for every response value and token list the JSON parser
\* returns len(tokens) numbers and raises nothing into simulate.
C5_JsonParserNeverRaises ==
    (json_mode /\ free_response # NoCompletion) =>
        /\ free_pc = "returned"
        /\ Len(free_result.expected_activations) = Len(free_tokens)

---------------------------------------------------------------------------
(* Claims about _parse_no_logprobs_completion (SpecText). *)

NumList(values) == [k \in 1..Len(values) |-> Num(values[k])]

\* C9: for a non-empty token list and values in [0, 10], the completion made
\* of the lines t_i TAB v_i DELIM newline parses to exactly [v_1, ..., v_N].
C9_FaithfulCompletionRoundTrip ==
    \A vs \in SeqsOfLen(ValueNats, Len(text_tokens)) :
        (/\ text_pc # "call"
         /\ text_tokens # <<>>
         /\ completion = FaithfulCompletion(text_tokens, vs)) =>
            /\ text_pc = "returned"
            /\ text_result.value = NumList(vs)

\* C9 witness: the completion of the lines for " B" and the end-of-text
\* token with the values 3 and 10, parsed.
C9_Witness ==
    /\ text_pc = "returned"
    /\ text_tokens = <<<<" ", "B">>, END_OF_TEXT_TOKEN>>
    /\ completion = FaithfulCompletion(text_tokens, <<3, 10>>)
    /\ text_result.value = <<Num(3), Num(10)>>

\* no line matches the first subject token
NoStartLine ==
    \A k \in 1..Len(TokenLines(completion)) :
        ~MatchesFirstToken(TokenLines(completion)[k], text_tokens[1])

\* the 1-based number of the first line that matches the first subject token
FirstStartLine ==
    CHOOSE k \in 1..Len(TokenLines(completion)) :
        /\ MatchesFirstToken(TokenLines(completion)[k], text_tokens[1])
        /\ \A j \in 1..(k - 1) :
              ~MatchesFirstToken(TokenLines(completion)[j], text_tokens[1])

\* C10: with no line matching the first subject token, or with a number of
\* lines from the first matching line to the end other than len(tokens), the
\* result is len(tokens) zeros; lines before the first matching line are
\* skipped: a faithful completion after a preamble line, with either
\* separator, parses to its values.
C10_StartLineAndLineCount ==
    (text_pc # "call" /\ text_tokens # <<>>) =>
        /\ (\/ NoStartLine
            \/ Len(TokenLines(completion)) - FirstStartLine + 1 # Len(text_tokens)) =>
              /\ text_pc = "returned"
              /\ text_result.value = [k \in 1..Len(text_tokens) |-> Num(0)]
        /\ \A vs \in SeqsOfLen(ValueNats, Len(text_tokens)), sep \in Separators :
              completion = JoinLines(
                  <<Str_preamble>> \o [k \in 1..Len(text_tokens) |->
                                          FaithfulLine(text_tokens[k], vs[k])], sep) =>
                  /\ text_pc = "returned"
                  /\ text_result.value = NumList(vs)

\* C10 witness: a completion with one line too many after its start line,
\* whose lines all carry values in range, parsed to zeros.
C10_Witness ==
    /\ text_pc = "returned"
    /\ Len(text_tokens) = 2
    /\ ~NoStartLine
    /\ FirstStartLine = 1
    /\ Len(TokenLines(completion)) = 3
    /\ \A k \in 1..3 : LineValue(TokenLines(completion)[k]) = Num(3)
    /\ text_result.value = <<Num(0), Num(0)>>

---------------------------------------------------------------------------
(* Claims about the per-position loop of _parse_no_logprobs_completion     *)
(* (SpecText).                                                             *)

\* the lines from the first matching line to the end
ScoredLines ==
    SubSeq(TokenLines(completion), FirstStartLine, Len(TokenLines(completion)))

\* a number in the closed range [0, 10]
InClosedRange(x) == ~x.nan /\ 0 <= x.v /\ x.v <= MAX_NORMALIZED_ACTIVATION

\* the value the claims give a line: its parsed second part if the line splits
\* on tab into exactly two parts and that part is a number in [0, 10], else 0
ClaimedLineValue(token_line) ==
    LET parts == Split(token_line, <<TAB>>)
    IN  IF Len(parts) # 2 THEN Num(0)
        ELSE IF PyFloat(parts[2]).kind = "ok" /\ InClosedRange(PyFloat(parts[2]).value)
        THEN PyFloat(parts[2]).value
        ELSE Num(0)

\* C11 (as claimed): when the start line and the line count match and every
\* line matches its token, position i of the result is the parsed value if
\* line i splits on tab into two parts and the second is a number in [0, 10],
\* and 0 otherwise, independently of the other positions, and every element
\* of the result is a number in [0, 10].
C11_PerPositionValues ==
    (/\ text_pc # "call"
     /\ text_tokens # <<>>
     /\ ~NoStartLine
     /\ Len(ScoredLines) = Len(text_tokens)
     /\ \A i \in 1..Len(text_tokens) :
           MatchesFirstToken(ScoredLines[i], text_tokens[i])) =>
        /\ text_pc = "returned"
        /\ Len(text_result.value) = Len(text_tokens)
        /\ \A i \in 1..Len(text_tokens) :
              /\ text_result.value[i] = ClaimedLineValue(ScoredLines[i])
              /\ InClosedRange(text_result.value[i])

\* C17 (as claimed): a line of the per-position loop is accepted only if it
\* starts with tokens[i] and a tab, or does so with one space prepended, or
\* starts with the end-of-text placeholder while tokens[i] stripped is the
\* end-of-text token; when some line is not, the result is len(tokens) zeros.
C17_StrictPositionMatch ==
    (/\ text_pc # "call"
     /\ text_tokens # <<>>
     /\ ~NoStartLine
     /\ Len(ScoredLines) = Len(text_tokens)
     /\ \E i \in 1..Len(text_tokens) :
           ~MatchesFirstToken(ScoredLines[i], text_tokens[i])) =>
        /\ text_pc = "returned"
        /\ text_result.value = [k \in 1..Len(text_tokens) |-> Num(0)]

---------------------------------------------------------------------------
(* Claims about the entries of _parse_no_logprobs_completion_json          *)
(* (SpecFree).                                                             *)

\* the JSON response holds an activations array of n entries, all objects
ActivationsOfLen(n) ==
    /\ json_mode
    /\ free_response.t = "dict"
    /\ "activations" \in free_response.keys
    /\ free_response.activations.t = "list"
    /\ Len(free_response.activations.items) = n
    /\ \A i \in 1..n : free_response.activations.items[i].t = "dict"

\* the value the claim gives an entry: 0 if a key is missing or the
\* activation is no number in [0, 10], else the activation
ClaimedEntryValue(e) ==
    IF "token" \notin e.keys \/ "activation" \notin e.keys THEN Num(0)
    ELSE IF FloatOf(e.activation).kind = "ok" /\ InClosedRange(FloatOf(e.activation).value)
    THEN FloatOf(e.activation).value
    ELSE Num(0)

\* C12 (as claimed): without an activations key, or with an activations
\* array whose length differs from len(tokens), the JSON parser returns
\* len(tokens) zeros; with equal lengths, an entry with a missing token or
\* activation key or with a non-numeric or out-of-range activation gives 0
\* at its position only and the other positions keep their parsed values.
C12_JsonEntryDegradation ==
    (json_mode /\ free_response.t = "dict") =>
        /\ "activations" \notin free_response.keys =>
              /\ free_pc = "returned"
              /\ free_result.expected_activations = zero_prediction(free_tokens)
        /\ (\E n \in 0..(MaxTokens + 1) :
                n # Len(free_tokens) /\ ActivationsOfLen(n)) =>
              /\ free_pc = "returned"
              /\ free_result.expected_activations = zero_prediction(free_tokens)
        /\ ActivationsOfLen(Len(free_tokens)) =>
              /\ free_pc = "returned"
              /\ free_result.expected_activations =
                    [i \in 1..Len(free_tokens) |->
                        ClaimedEntryValue(free_response.activations.items[i])]

\* C18 (as claimed): if the token field of some activations[i] differs from
\* tokens[i], the JSON parser returns len(tokens) zeros.
C18_JsonTokenMismatchZeros ==
    (/\ ActivationsOfLen(Len(free_tokens))
     /\ \E i \in 1..Len(free_tokens) :
           /\ "token" \in free_response.activations.items[i].keys
           /\ free_response.activations.items[i].token # free_tokens[i]) =>
        /\ free_pc = "returned"
        /\ free_result.expected_activations = zero_prediction(free_tokens)


---------------------------------------------------------------------------
(* Prompts and constructors. *)

BuiltBy(kind) == sim_pc = "built" /\ sim_kind = kind


IsDialogue(message) == message.role # "system"

\* the messages of the built prompt but the system messages
Dialogue == SelectSeq(sim_messages, IsDialogue)

LastMessage == sim_messages[Len(sim_messages)]

\* the tokens a message of the logprob-free prompts asks to reproduce
ShownTokens(message) ==
    LET content == message.content
    IN  IF "lines" \in DOMAIN content
        THEN [k \in 1..Len(content.lines) |-> content.lines[k].token]
        ELSE IF "activations" \in DOMAIN content
        THEN [k \in 1..Len(content.activations) |-> content.activations[k].token]
        ELSE <<>>

\* C13: in every prompt the logprob-free simulator builds for a request, in
\* the delimited-text and in the JSON encoding, no shown token is the
\* literal end-of-text token, and a subject token that is the end-of-text
\* token is shown as the placeholder.
C13_EndOfTextReplaced ==
    BuiltBy("LogprobFreeExplanationTokenSimulator") =>
        /\ \A m \in 1..Len(sim_messages) :
               \A k \in 1..Len(ShownTokens(sim_messages[m])) :
                   ShownTokens(sim_messages[m])[k] # END_OF_TEXT_TOKEN
        /\ \A k \in 1..Len(sim_tokens) :
               sim_tokens[k] = END_OF_TEXT_TOKEN =>
                   ShownTokens(LastMessage)[k] = END_OF_TEXT_TOKEN_REPLACEMENT

\* the same for the delimited-text encoding alone
EndOfTextReplacedInText ==
    ~sim_json_mode => C13_EndOfTextReplaced

\* C14: a token-by-token or logprob-free simulator given the ORIGINAL
\* few-shot example set never gets past its constructor: the constructor
\* raises, no ApiClient is created and no prompt is ever built.
C14_OriginalSetRejected ==
    (/\ sim_kind \in {"ExplanationTokenByTokenSimulator",
                      "LogprobFreeExplanationTokenSimulator"}
     /\ sim_example_set = "ORIGINAL") =>
        /\ sim_pc \in {"new", "construct_raised"}
        /\ ~sim_api_client
        /\ sim_messages = <<>>

C14_Witness ==
    /\ sim_pc = "construct_raised"
    /\ sim_kind = "ExplanationTokenByTokenSimulator"
    /\ sim_example_set = "ORIGINAL"

\* the final user message carries the real explanation and the unscored
\* subject tokens, in the form of its strategy
FinalUserMessage(message) ==
    /\ message.role = "user"
    /\ CASE sim_kind = "ExplanationTokenByTokenSimulator" ->
              \E i \in 0..(Len(sim_tokens) - 1) :
                  message.content =
                      make_single_token_simulation_prompt(sim_tokens, sim_explanation, i)
         [] sim_kind = "LogprobFreeExplanationTokenSimulator" /\ sim_json_mode ->
              /\ message.content.to_find = sim_explanation
              /\ message.content.activations =
                     [k \in 1..Len(sim_tokens) |->
                         [token |-> sim_tokens[k], activation |-> JNull]]
         [] sim_kind = "LogprobFreeExplanationTokenSimulator" /\ ~sim_json_mode ->
              /\ message.content.explanation = sim_explanation
              /\ message.content.lines =
                     [k \in 1..Len(sim_tokens) |->
                         [token |-> ShownToken(sim_tokens[k]), activation |-> <<>>]]
         [] OTHER ->
              /\ "format_sequences_for_simulation" \in DOMAIN message.content
              /\ message.content.explanation = Strip(sim_explanation, Whitespace)
              /\ message.content.format_sequences_for_simulation = <<sim_tokens>>

\* the messages but the system messages alternate user, assistant, ...
Alternating ==
    \A k \in 1..Len(Dialogue) :
        Dialogue[k].role = IF k % 2 = 1 THEN "user" ELSE "assistant"

\* C15 as stated: every built prompt alternates user/assistant messages and
\* ends with the user message carrying the real explanation and the
\* unscored subject tokens.
C15_EveryPromptEndsWithUser ==
    sim_pc = "built" => Alternating /\ FinalUserMessage(LastMessage)

\* C15: the prompts of the token-by-token and the logprob-free simulators
\* alternate user/assistant messages after the system message and end with
\* the user message carrying the real explanation and the unscored subject
\* tokens; the prompt of ExplanationNeuronSimulator alternates the same way
\* but ends with an assistant message carrying the subject tokens, after the
\* user message carrying the real explanation.
C15_PromptShape ==
    sim_pc = "built" =>
        /\ sim_messages[1].role = "system"
        /\ Alternating
        /\ IF sim_kind = "ExplanationNeuronSimulator"
           THEN /\ Len(Dialogue) = 2 * Len(sim_examples) + 2
                /\ LastMessage =
                       Message("assistant",
                               [format_sequences_for_simulation |-> <<sim_tokens>>])
                /\ sim_messages[Len(sim_messages) - 1] =
                       Message("user",
                               [explanation |-> Strip(sim_explanation, Whitespace)])
           ELSE /\ Len(Dialogue) % 2 = 1
                /\ FinalUserMessage(LastMessage)

C15_Witness ==
    /\ BuiltBy("ExplanationNeuronSimulator")
    /\ Len(sim_examples) = MaxExamples
    /\ sim_tokens # <<>>

\* C19: every ActivationRecord constructed while a prompt is built has as
\* many activations as tokens, or no activations.
C19_RecordLengths ==
    sim_pc = "built" =>
        \A k \in 1..Len(sim_records) :
            \/ Len(sim_records[k].tokens) = Len(sim_records[k].activations)
            \/ sim_records[k].activations = <<>>

\* the records _add_single_token_simulation_subprompt trims, the first and
\* the last a token-by-token prompt constructs, do
TrimmedRecordLengths ==
    BuiltBy("ExplanationTokenByTokenSimulator") =>
        \A k \in {1, Len(sim_records)} :
            Len(sim_records[k].tokens) = Len(sim_records[k].activations)


---------------------------------------------------------------------------
(* Repeated invocations of LogprobFreeExplanationTokenSimulator.simulate. *)

---------------------------------------------------------------------------
(* Which candidates parse_top_logprobs keeps. *)

\* int(token) succeeds: optional whitespace around an optional sign and
\* decimal digits
ParsesAsInt(token) ==
    LET t == Strip(token, Whitespace)
    IN  AllDigits(IF t # <<>> /\ Head(t) \in {"-", "+"} THEN Tail(t) ELSE t)

\* int(token) for a token that parses
IntValue(token) ==
    LET t == Strip(token, Whitespace)
    IN  IF Head(t) = "-" THEN 0 - NatOfDigits(Tail(t))
        ELSE IF Head(t) = "+" THEN NatOfDigits(Tail(t))
        ELSE NatOfDigits(t)

ParsesInRange(token) ==
    ParsesAsInt(token) /\ IntValue(token) \in 0..MAX_NORMALIZED_ACTIVATION

\* the token is the decimal numeral of an integer of the range
IsNumeralInRange(e) ==
    \E i \in 0..MAX_NORMALIZED_ACTIVATION : e.token = StrOfNat(i)

\* C20 as stated: a candidate's value is among the returned values exactly
\* when its token parses as an integer of 0..10.
C20_KeepsWhatParsesInRange ==
    stats_pc = "returned" =>
        \A k \in 1..Len(top_logprobs) :
            ParsesInRange(top_logprobs[k].token)
            <=> /\ ParsesAsInt(top_logprobs[k].token)
                /\ \E j \in 1..Len(stats_result.norm) :
                       stats_result.norm[j].key = IntValue(top_logprobs[k].token)

\* C20: the returned values are the candidates whose token is one of the
\* numerals "0".."10", in the order of the table and each once, a numeral
\* above 10 dropped and not clipped; each probability is the candidate's own
\* exp(logprob) over the total of the kept candidates alone.
C20_KeepsNumeralsInRange ==
    stats_pc = "returned" =>
        LET kept == SelectSeq(top_logprobs, IsNumeralInRange)
            total == IntSum([k \in 1..Len(kept) |-> NpExp(kept[k].logprob)])
            norm == stats_result.norm
        IN  /\ Len(norm) = Len(kept)
            /\ \A k \in 1..Len(kept) :
                   /\ StrOfNat(norm[k].key) = kept[k].token
                   /\ norm[k].val = Rat(NpExp(kept[k].logprob), total)
            /\ \A j, k \in 1..Len(norm) : norm[j].key = norm[k].key => j = k

\* a table whose first and last candidates are kept, out of order of value,
\* and whose middle one, which int() parses to 7 or to 11, is dropped
C20_Witness ==
    /\ stats_pc = "returned"
    /\ Len(top_logprobs) = 3
    /\ Len(stats_result.norm) = 2
    /\ stats_result.norm[1].key > stats_result.norm[2].key
    /\ ParsesAsInt(top_logprobs[2].token)
    /\ ~IsNumeralInRange(top_logprobs[2])
    /\ IntValue(top_logprobs[2].token) >= 0


---------------------------------------------------------------------------
(* Tables without a valid candidate (SpecNoCandidate). *)

\* what a token whose table has no valid candidate is reported with: the
\* expected value 0 that no division produced, and an empty distribution
ZeroWithEmptyDistribution(expected_value, values, probabilities) ==
    /\ expected_value = Rat(0, 1)
    /\ values = <<>>
    /\ probabilities = <<>>

\* C21: for a table without a valid quantized candidate, the empty table
\* included, compute_predicted_activation_stats_for_token returns the empty
\* distribution and the expected value 0, with no division by the zero
\* total; the token-by-token simulate, when every request completed, and
\* parse_simulation_response, on a response that follows the protocol, do
\* not raise, and report such a token with expected activation 0 and empty
\* distribution lists.
C21_NoCandidateGivesZero ==
    /\ (stats_pc = "returned" /\ ~HasValidCandidate(top_logprobs)) =>
           stats_result = NoStats
    /\ (/\ tbt_pc \notin {"off", "idle"}
        /\ \A k \in DOMAIN tasks : tasks[k].state = "done") =>
           /\ tbt_pc \in {"gathering", "returned"}
           /\ tbt_pc = "returned" =>
                  \A k \in 1..TbtN :
                      ~HasValidCandidate(tasks[k].response) =>
                          ZeroWithEmptyDistribution(
                              tbt_result.expected_activations[k],
                              tbt_result.distribution_values[k],
                              tbt_result.distribution_probabilities[k])
    /\ (/\ lp_pc \notin {"off", "call"}
        /\ RFind(LpText, START_MARKER) # -1
        /\ ProtocolAt(RFind(LpText, START_MARKER))) =>
           /\ lp_pc = "returned"
           /\ Len(lp_result.value.expected_activations) = LpN
           /\ \A i \in 1..LpN :
                  ~HasValidCandidate(
                       TableAtOffset(TabOffset(RFind(LpText, START_MARKER), lp_tokens, i))) =>
                      ZeroWithEmptyDistribution(
                          lp_result.value.expected_activations[i],
                          lp_result.value.distribution_values[i],
                          lp_result.value.distribution_probabilities[i])

\* the function has returned for the empty table
C21_Witness ==
    /\ stats_pc = "returned"
    /\ top_logprobs = <<>>
    /\ stats_result = NoStats

\* simulate has returned for two tokens, the first with the empty table and
\* the second with a table of candidates that are not valid
NoCandidateTbtReturned ==
    /\ tbt_pc = "returned"
    /\ TbtN = 2
    /\ tasks[1].response = <<>>
    /\ tasks[2].response = ResponseTable("other")
    /\ tbt_result.expected_activations = <<Rat(0, 1), Rat(0, 1)>>

\* parse_simulation_response has returned for two lines, the first with the
\* empty table and the second with a table of two valid candidates
NoCandidateLogprobReturned ==
    /\ lp_pc = "returned"
    /\ LpN = 2
    /\ lp_result.value.distribution_values[1] = <<>>
    /\ lp_result.value.expected_activations[1] = Rat(0, 1)
    /\ lp_result.value.distribution_values[2] # <<>>
    /\ TableAtOffset(TabOffset(RFind(LpText, START_MARKER), lp_tokens, 1)) = <<>>

===========================================================================
